---- MODULE Spec2Model ----
(***************************************************************************)
(* Activity recorder: the native messaging host (src/native_host.py) and   *)
(* the four-stage recording pipeline (src/workflow.py, src/storage.py).    *)
(*                                                                         *)
(* Two threads are modelled.  The control thread runs the read / dispatch  *)
(* / respond loop of NativeMessagingHost.start; every command handler is   *)
(* one action.  The worker thread runs the asyncio event loop: its ready   *)
(* queue is a FIFO of handles (coroutine-start callbacks posted with       *)
(* run_coroutine_threadsafe, first steps of new tasks, cancel requests     *)
(* posted by Future.cancel, wake-ups of sleeping tasks).  The stages of a  *)
(* cycle are awaited through graph.ainvoke, so a task is suspended at      *)
(* every stage boundary and other tasks, and cancellation, may run there.  *)
(***************************************************************************)
EXTENDS Integers, Sequences, FiniteSets, TLC

\* ---------------------------------------------------------------- bounds
MaxTasks    == 2      \* coroutines ever handed to the worker loop
MaxCommands == 3      \* commands read from the input stream
MaxTimers   == 1      \* interval timers that expire
MaxFaults   == 1      \* collaborator calls that fail
MaxFrames   == 2      \* frames the peer writes to the input stream
MaxRecords  == 2      \* records of the activity log when a query arrives
MaxSecond   == 2      \* latest second of a timestamp
MaxMicro    == 1      \* largest microsecond field of a timestamp
MaxStored   == 4      \* records of the activity log when a cycle starts
MaxCaptures == 4      \* screenshots taken by the cycles of a run
MaxClock    == 3      \* seconds the wall clock advances during a run
KeepLastN   == 2      \* keep_last_n of cleanup_old_screenshots
MaxWriters  == 2      \* cycles whose Store and Cleanup stages overlap
MaxThreads  == 3      \* worker threads the window creates

\* ------------------------------------------------------ program constants
DefaultInterval == 180          \* Config.SCREENSHOT_INTERVAL
RecentLimit     == 5            \* get_recent_activities(limit=5)
ContextSize     == 3            \* recent_activities[-3:]

Tasks      == 1..MaxTasks
NoTask     == 0
Intervals  == {5}                \* intervals a start_recording message names
NoInterval == 0                 \* message without an 'interval' key
BadInterval  == -1              \* settings['interval'] a string that is no number
NullInterval == -2              \* settings['interval'] null
GuiIntervals == {0, 60}         \* recording.interval of gui_config.json, 0 = absent

StageNames == {"capture", "analyze", "store", "cleanup"}

ErrAlreadyRunning == "Recording is already running"
ErrNotRunning     == "Recording is not running"
ErrTimeout        == "Capture timeout"
ErrUnknown        == "Unknown command"
ErrIntArgument    == "int() argument must be a string, a bytes-like object or a real number"
ErrCaptureFailed  == "Failed to capture screenshot"
NoError           == "None"

VARIABLES
    \* NativeMessagingHost fields and Config
    is_recording,        \* self.is_recording
    recording_task,      \* self.recording_task (a task id, NoTask = None)
    SCREENSHOT_INTERVAL, \* Config.SCREENSHOT_INTERVAL
    gui_interval,        \* recording.interval read by Config._load_gui_config
    \* process environment
    event_loop,          \* "running" | "stopped" (self.event_loop.stop)
    byteorder,           \* sys.byteorder of the host: "little" | "big"
    stdin,               \* bytes of sys.stdin.buffer not read yet
    stdout,              \* bytes written to sys.stdout.buffer (SpecWire: by the last call)
    frames,              \* the frames the peer wrote to stdin, in order
    sent,                \* the object passed to _send_message last, as JSON value
    \* control thread
    ctl,                 \* "read" | "wait_capture"
    waiting,             \* the capture_now task the control thread blocks on
    nread,               \* number of messages read so far
    cmd,                 \* the message read last
    out,                 \* the response written last
    nsent,               \* number of responses written so far
    \* worker event loop
    ready,               \* FIFO of handles [kind, task]
    pc,                  \* position of every coroutine
    kind,                \* "loop" (start_continuous_recording) | "capture"
    futState,            \* state of the concurrent future of a task
    mustCancel,          \* Task.cancel() was requested on the loop
    interval,            \* the closure variable 'interval' of a loop
    state,               \* the ActivityState of the cycle in flight
    timers,              \* interval timers that have expired
    nextTask,
    \* collaborators
    store,               \* the activities list of the activity log
    faults,              \* collaborator calls that have failed
    \* observation of cycles
    stages,              \* collaborator calls the cycle in flight has made, in order
    appended,            \* records the cycle in flight has appended
    failed,              \* stages of the cycle in flight whose collaborator failed
    stopInCycle,         \* a stop succeeded while this task's cycle was executing
    stopInWait,          \* a stop succeeded while this task was in its interval wait
    lastSession,         \* last session command acknowledged: "none"|"start"|"stop"
    context,             \* the context passed to the analysis collaborator last
    \* collaborators below the pipeline and the desktop application
    shots,               \* the screenshot directory and the clock of its file names
    io,                  \* the activity log file and the threads reading and writing it
    gui                  \* MainWindow, its RecordingWorker and QThread

envVars    == <<event_loop, byteorder, stdout, frames, sent>>
hostVars   == <<is_recording, recording_task, SCREENSHOT_INTERVAL, gui_interval, envVars>>
ctlVars    == <<ctl, waiting, stdin, nread, cmd, out, nsent>>
loopVars   == <<ready, pc, kind, futState, mustCancel, interval, state, timers, nextTask>>
obsVars    == <<stages, failed, appended, stopInCycle, stopInWait, lastSession>>
auxVars    == <<shots, io, gui>>
vars       == <<hostVars, ctlVars, loopVars, store, faults, context, auxVars, obsVars>>

\* ------------------------------------------------------------ data model
InitialState == [success |-> FALSE, error |-> NoError, screenshot_path |-> "",
                 activity_description |-> "", analysis_successful |-> FALSE]

Response(c, ok, err) ==
    [command |-> c, success |-> ok, error |-> err,
     interval |-> NoInterval, is_recording |-> FALSE]

NoMessage  == [command |-> "none", interval |-> NoInterval]
NoResponse == Response("none", FALSE, NoError)

\* _send_message: the response goes to the output stream
Send(response) == out' = response /\ nsent' = nsent + 1

Handle(k, t) == [kind |-> k, task |-> t]

\* Config.get_screenshot_interval: the GUI configuration file wins over the
\* class attribute.
get_screenshot_interval ==
    IF gui_interval # 0 THEN gui_interval ELSE SCREENSHOT_INTERVAL

InCycle(t)   == pc[t] \in StageNames
\* the loop body of start_continuous_recording is executing or suspended
LoopActive(t) ==
    kind[t] = "loop" /\ pc[t] \in StageNames \cup {"check", "returned", "sleep", "woken"}

\* ------------------------------------------------------------- wire format
\* Bytes are 0..255.  Payloads are JSON texts over printable ASCII, which is
\* all json.dumps (ensure_ascii) writes, so that encode('utf-8') maps every
\* character to the byte of its code; 255 stands for bytes that are not
\* valid UTF-8.
Quote == 34
Space == 32
Comma == 44
Colon == 58
LBracket == 91
Backslash == 92
RBracket == 93
LBrace == 123
RBrace == 125
InvalidByte == 255

\* characters of the strings that occur in messages
Chars(name) ==
    CASE name = "command"    -> <<99, 111, 109, 109, 97, 110, 100>>
      [] name = "get_status" -> <<103, 101, 116, 95, 115, 116, 97, 116, 117, 115>>
      [] name = "bogus"      -> <<98, 111, 103, 117, 115>>
      [] name = "error"      -> <<101, 114, 114, 111, 114>>
      [] name = "start_recording" ->
           <<115, 116, 97, 114, 116, 95, 114, 101, 99, 111, 114, 100, 105, 110, 103>>
      [] name = "stop_recording" ->
           <<115, 116, 111, 112, 95, 114, 101, 99, 111, 114, 100, 105, 110, 103>>
      [] name = "Invalid JSON" -> <<73, 110, 118, 97, 108, 105, 100, 32, 74, 83, 79, 78>>
      [] OTHER               -> <<>>
Names == {"command", "get_status", "bogus", "error", "Invalid JSON"}

\* JSON values: strings, arrays and objects (a sequence of members)
JString(chars) == [type |-> "string", chars |-> chars, items |-> <<>>]
JArray(items)  == [type |-> "array",  chars |-> <<>>,  items |-> items]
JObject(members) == [type |-> "object", chars |-> <<>>, items |-> members]
Member(k, v)   == [key |-> Chars(k), value |-> v]

Take(s, n) == SubSeq(s, 1, IF n < Len(s) THEN n ELSE Len(s))
Drop(s, n) == SubSeq(s, (IF n < Len(s) THEN n ELSE Len(s)) + 1, Len(s))

\* json.dumps with the default separators ', ' and ': '
RECURSIVE json_dumps(_), dumps_members(_), dumps_items(_)
json_dumps(v) ==
    CASE v.type = "string" -> <<Quote>> \o v.chars \o <<Quote>>
      [] v.type = "array"  -> <<LBracket>> \o dumps_items(v.items) \o <<RBracket>>
      [] OTHER             -> <<LBrace>> \o dumps_members(v.items) \o <<RBrace>>
dumps_members(ms) ==
    IF ms = <<>> THEN <<>>
    ELSE <<Quote>> \o ms[1].key \o <<Quote, Colon, Space>> \o json_dumps(ms[1].value)
         \o (IF Len(ms) = 1 THEN <<>> ELSE <<Comma, Space>> \o dumps_members(Tail(ms)))
dumps_items(vs) ==
    IF vs = <<>> THEN <<>>
    ELSE json_dumps(vs[1])
         \o (IF Len(vs) = 1 THEN <<>> ELSE <<Comma, Space>> \o dumps_items(Tail(vs)))

\* json.loads: a recursive-descent parser; next is the index after the value
ParseFail == [ok |-> FALSE, value |-> JString(<<>>), next |-> 0]
Parsed(v, n) == [ok |-> TRUE, value |-> v, next |-> n]

RECURSIVE SkipWs(_, _)
SkipWs(b, i) == IF i <= Len(b) /\ b[i] = Space THEN SkipWs(b, i + 1) ELSE i

IsPlain(c) == c >= Space /\ c < 127 /\ c # Quote /\ c # Backslash

\* index of the quote that closes the string whose body starts at i, 0 if none
RECURSIVE ScanString(_, _)
ScanString(b, i) ==
    IF i > Len(b) THEN 0
    ELSE IF b[i] = Quote THEN i
    ELSE IF IsPlain(b[i]) THEN ScanString(b, i + 1)
    ELSE 0

ParseString(b, i) ==
    LET j == ScanString(b, i + 1) IN
    IF j = 0 THEN ParseFail ELSE Parsed(JString(SubSeq(b, i + 1, j - 1)), j + 1)

RECURSIVE ParseValue(_, _), ParseMembers(_, _, _), ParseItems(_, _, _)
ParseValue(b, i0) ==
    LET i == SkipWs(b, i0) IN
    IF i > Len(b) THEN ParseFail
    ELSE IF b[i] = Quote THEN ParseString(b, i)
    ELSE IF b[i] = LBrace THEN
         LET j == SkipWs(b, i + 1) IN
         IF j <= Len(b) /\ b[j] = RBrace THEN Parsed(JObject(<<>>), j + 1)
         ELSE ParseMembers(b, j, <<>>)
    ELSE IF b[i] = LBracket THEN
         LET j == SkipWs(b, i + 1) IN
         IF j <= Len(b) /\ b[j] = RBracket THEN Parsed(JArray(<<>>), j + 1)
         ELSE ParseItems(b, j, <<>>)
    ELSE ParseFail
ParseMembers(b, i0, acc) ==
    LET i == SkipWs(b, i0) IN
    IF i > Len(b) \/ b[i] # Quote THEN ParseFail
    ELSE LET k == ParseString(b, i) IN
    IF ~k.ok THEN ParseFail
    ELSE LET c == SkipWs(b, k.next) IN
    IF c > Len(b) \/ b[c] # Colon THEN ParseFail
    ELSE LET v == ParseValue(b, c + 1) IN
    IF ~v.ok THEN ParseFail
    ELSE LET e == SkipWs(b, v.next)
             members == Append(acc, [key |-> k.value.chars, value |-> v.value]) IN
    IF e > Len(b) THEN ParseFail
    ELSE IF b[e] = RBrace THEN Parsed(JObject(members), e + 1)
    ELSE IF b[e] = Comma THEN ParseMembers(b, e + 1, members)
    ELSE ParseFail
ParseItems(b, i0, acc) ==
    LET v == ParseValue(b, i0) IN
    IF ~v.ok THEN ParseFail
    ELSE LET e == SkipWs(b, v.next)
             items == Append(acc, v.value) IN
    IF e > Len(b) THEN ParseFail
    ELSE IF b[e] = RBracket THEN Parsed(JArray(items), e + 1)
    ELSE IF b[e] = Comma THEN ParseItems(b, e + 1, items)
    ELSE ParseFail

\* json.loads(text): one value, nothing but white space after it
json_loads(b) ==
    LET v == ParseValue(b, 1) IN
    IF v.ok /\ SkipWs(b, v.next) = Len(b) + 1 THEN v ELSE ParseFail

\* bytes.decode('utf-8') succeeds
Utf8Valid(b) == \A i \in 1..Len(b) : b[i] < 128

\* struct.pack('=I', n): 32 bits in the byte order of the host
ByteOrders == {"little", "big"}
LittleEndian(n) ==
    <<n % 256, (n \div 256) % 256, (n \div 65536) % 256, (n \div 16777216) % 256>>
Reversed(q) == <<q[4], q[3], q[2], q[1]>>
pack(n, order) == IF order = "little" THEN LittleEndian(n) ELSE Reversed(LittleEndian(n))

\* struct.unpack('=I', raw)[0]; lengths of 2^31 and more are represented by
\* 2^31 - 1, which like them exceeds the length of every stream considered
unpack(raw, order) ==
    LET q == IF order = "little" THEN raw ELSE Reversed(raw) IN
    IF q[4] >= 128 THEN 2147483647
    ELSE q[1] + 256 * q[2] + 65536 * q[3] + 16777216 * q[4]

\* variant: the length prefix counts one byte too many
send_message_OffByOne(m, order) ==
    LET message_bytes == json_dumps(m) IN
    pack(Len(message_bytes) + 1, order) \o message_bytes

\* _send_message: the bytes written to stdout for message m
send_message(m, order) ==
    LET message_bytes == json_dumps(m) IN pack(Len(message_bytes), order) \o message_bytes

\* the message _read_message substitutes for a payload that is not JSON
InvalidJsonMessage ==
    JObject(<<Member("command", JString(Chars("error"))),
              Member("error", JString(Chars("Invalid JSON")))>>)

ReadResult(st, m, rest) == [status |-> st, message |-> m, rest |-> rest]

\* _read_message on the stream s: status "closed" (0 bytes: None), "failed"
\* ('except Exception': None) or "ok" with the message returned
read_message(s, order) ==
    LET raw_length == Take(s, 4) IN
    IF Len(raw_length) = 0 THEN ReadResult("closed", JString(<<>>), s)
    ELSE IF Len(raw_length) < 4 THEN ReadResult("failed", JString(<<>>), <<>>)
    ELSE LET message_length == unpack(raw_length, order)
             message_bytes == Take(Drop(s, 4), message_length)
             rest == Drop(Drop(s, 4), message_length) IN
         IF ~Utf8Valid(message_bytes) THEN ReadResult("failed", JString(<<>>), rest)
         ELSE LET v == json_loads(message_bytes) IN
              IF ~v.ok THEN ReadResult("ok", InvalidJsonMessage, rest)
              ELSE IF v.value.type # "object"
                   THEN ReadResult("failed", JString(<<>>), rest)
                   ELSE ReadResult("ok", v.value, rest)

\* the screenshot directory, the log file and the desktop window start empty
\* and idle (see the sections on each)
InitShots == [dir |-> {}, second |-> 0, ticks |-> 0, created |-> <<>>,
              pending |-> FALSE]
InitIo == [file |-> [whole |-> TRUE, activities |-> <<>>],
           at |-> [w \in 1..MaxWriters |-> "idle"],
           data |-> [w \in 1..MaxWriters |-> <<>>],
           saved |-> <<>>,
           view |-> <<>>]
NoWorker == 0
InitGui == [recording_worker |-> NoWorker,
            recording_thread |-> NoWorker,
            thread |-> [w \in 1..MaxThreads |-> "none"],
            loop |-> [w \in 1..MaxThreads |-> FALSE],
            stop |-> [w \in 1..MaxThreads |-> "none"],
            quit |-> [w \in 1..MaxThreads |-> FALSE],
            expired |-> [w \in 1..MaxThreads |-> FALSE],
            terminated |-> [w \in 1..MaxThreads |-> FALSE],
            main |-> "idle",
            closing |-> FALSE,
            refused |-> FALSE]

InitSession ==
    /\ is_recording = FALSE
    /\ recording_task = NoTask
    /\ SCREENSHOT_INTERVAL = DefaultInterval
    /\ gui_interval \in GuiIntervals
    /\ event_loop = "running"
    /\ stdout = <<>>
    /\ sent = JString(<<>>)
    /\ ctl = "read"
    /\ waiting = NoTask
    /\ nread = 0
    /\ cmd = NoMessage
    /\ out = NoResponse
    /\ nsent = 0
    /\ ready = <<>>
    /\ pc = [t \in Tasks |-> "none"]
    /\ kind = [t \in Tasks |-> "none"]
    /\ futState = [t \in Tasks |-> "none"]
    /\ mustCancel = [t \in Tasks |-> FALSE]
    /\ interval = [t \in Tasks |-> NoInterval]
    /\ state = [t \in Tasks |-> InitialState]
    /\ timers = 0
    /\ nextTask = 1
    /\ faults = 0
    /\ stages = [t \in Tasks |-> <<>>]
    /\ appended = [t \in Tasks |-> 0]
    /\ failed = [t \in Tasks |-> {}]
    /\ stopInCycle = [t \in Tasks |-> FALSE]
    /\ stopInWait = [t \in Tasks |-> FALSE]
    /\ lastSession = "none"
    /\ context = <<>>
    /\ shots = InitShots
    /\ io = InitIo
    /\ gui = InitGui

\* the host as the commands of a peer reach it, frame decoding left aside
Init ==
    /\ InitSession
    /\ byteorder = "little"
    /\ frames = <<>>
    /\ stdin = <<>>
    /\ store = <<>>


\* ------------------------------------------------- control thread: handlers
\* asyncio.run_coroutine_threadsafe: allocate the concurrent future and post
\* the coroutine-start callback to the worker loop.
Schedule(t, k, iv) ==
    /\ pc' = [pc EXCEPT ![t] = "scheduled"]
    /\ kind' = [kind EXCEPT ![t] = k]
    /\ futState' = [futState EXCEPT ![t] = "pending"]
    /\ interval' = [interval EXCEPT ![t] = iv]
    /\ ready' = Append(ready, Handle("callback", t))
    /\ nextTask' = t + 1
    /\ UNCHANGED <<mustCancel, state, timers>>

\* The interval a start_recording message asks for.
RequestedInterval(msg) ==
    IF msg.interval # NoInterval THEN msg.interval ELSE get_screenshot_interval

\* variant: Config is updated before the is_recording check
HandleStartRecording_ConfigFirst(msg) ==
    LET iv == RequestedInterval(msg) IN
    /\ SCREENSHOT_INTERVAL' =
           IF iv # get_screenshot_interval THEN iv ELSE SCREENSHOT_INTERVAL
    /\ IF is_recording
       THEN /\ Send(Response("start_recording", FALSE, ErrAlreadyRunning))
            /\ UNCHANGED <<is_recording, recording_task, gui_interval, envVars, loopVars,
                           lastSession>>
       ELSE /\ Schedule(nextTask, "loop", iv)
            /\ recording_task' = nextTask
            /\ Send([Response("start_recording", TRUE, NoError)
                                      EXCEPT !.interval = iv])
            /\ lastSession' = "start"
            /\ UNCHANGED <<is_recording, gui_interval, envVars>>

HandleStartRecording(msg) ==
    IF is_recording
    THEN /\ Send(Response("start_recording", FALSE, ErrAlreadyRunning))
         /\ UNCHANGED <<hostVars, loopVars, lastSession>>
    ELSE LET iv == RequestedInterval(msg) IN
         /\ SCREENSHOT_INTERVAL' =
                IF iv # get_screenshot_interval THEN iv ELSE SCREENSHOT_INTERVAL
         /\ Schedule(nextTask, "loop", iv)
         /\ recording_task' = nextTask
         /\ Send([Response("start_recording", TRUE, NoError)
                                   EXCEPT !.interval = iv])
         /\ lastSession' = "start"
         /\ UNCHANGED <<is_recording, gui_interval, envVars>>

\* concurrent.futures.Future.cancel on the future of task t: a pending future
\* becomes cancelled and, once _chain_future has linked it to its task, a
\* Task.cancel call is posted to the worker loop.
Cancellable(t) == t # NoTask /\ futState[t] = "pending"

CancelledFutures(t) ==
    IF Cancellable(t) THEN [futState EXCEPT ![t] = "cancelled"] ELSE futState

CancelPosted(t) ==
    IF Cancellable(t) /\ pc[t] # "scheduled"
    THEN Append(ready, Handle("cancel", t)) ELSE ready

CancelFuture(t) ==
    /\ futState' = CancelledFutures(t)
    /\ ready' = CancelPosted(t)

\* variant: the recording task is cancelled before the is_recording check
HandleStopRecording_CancelFirst ==
    /\ CancelFuture(recording_task)
    /\ IF ~is_recording
       THEN /\ Send(Response("stop_recording", FALSE, ErrNotRunning))
            /\ UNCHANGED <<hostVars, pc, kind, mustCancel, interval, state, timers,
                           nextTask, lastSession, stopInCycle, stopInWait>>
       ELSE /\ is_recording' = FALSE
            /\ Send(Response("stop_recording", TRUE, NoError))
            /\ lastSession' = "stop"
            /\ stopInCycle' = [t \in Tasks |-> stopInCycle[t] \/
                               (kind[t] = "loop" /\ pc[t] \in {"analyze", "store", "cleanup"})]
            /\ stopInWait' = [t \in Tasks |-> stopInWait[t] \/
                               (kind[t] = "loop" /\ pc[t] = "sleep")]
            /\ UNCHANGED <<recording_task, SCREENSHOT_INTERVAL, gui_interval, envVars,
                           pc, kind, mustCancel, interval, state, timers, nextTask>>

HandleStopRecording ==
    IF ~is_recording
    THEN /\ Send(Response("stop_recording", FALSE, ErrNotRunning))
         /\ UNCHANGED <<hostVars, loopVars, lastSession, stopInCycle, stopInWait>>
    ELSE /\ is_recording' = FALSE
         /\ CancelFuture(recording_task)
         /\ Send(Response("stop_recording", TRUE, NoError))
         /\ lastSession' = "stop"
         /\ stopInCycle' = [t \in Tasks |-> stopInCycle[t] \/
                               (kind[t] = "loop" /\ pc[t] \in {"analyze", "store", "cleanup"})]
         /\ stopInWait' = [t \in Tasks |-> stopInWait[t] \/
                               (kind[t] = "loop" /\ pc[t] = "sleep")]
         /\ UNCHANGED <<recording_task, SCREENSHOT_INTERVAL, gui_interval, envVars,
                        pc, kind, mustCancel, interval, state, timers, nextTask>>

HandleGetStatus ==
    /\ Send([Response("get_status", TRUE, NoError)
                              EXCEPT !.is_recording = is_recording,
                                     !.interval = get_screenshot_interval])
    /\ UNCHANGED <<hostVars, loopVars, lastSession>>

\* variant: the handler does not wait for the cycle and writes no response
HandleCaptureNow_NoWait ==
    /\ Schedule(nextTask, "capture", NoInterval)
    /\ waiting' = NoTask
    /\ ctl' = "read"
    /\ UNCHANGED <<hostVars, out, nsent, lastSession>>

\* _handle_capture_now up to the blocking future.result(timeout=30)
HandleCaptureNow ==
    /\ Schedule(nextTask, "capture", NoInterval)
    /\ waiting' = nextTask
    /\ ctl' = "wait_capture"
    /\ UNCHANGED <<hostVars, out, nsent, lastSession>>

\* variant: an unknown command ends the session
HandleUnknown_EndsSession(msg) ==
    /\ Send(Response(msg.command, FALSE, ErrUnknown))
    /\ is_recording' = FALSE
    /\ UNCHANGED <<recording_task, SCREENSHOT_INTERVAL, gui_interval, envVars,
                   loopVars, lastSession>>

\* _process_message, final else: the command name is not known
HandleUnknown(msg) ==
    /\ Send(Response(msg.command, FALSE, ErrUnknown))
    /\ UNCHANGED <<hostVars, loopVars, lastSession>>

\* _process_message, 'except Exception': the handler of msg raised err
HandlerRaised(msg, err) ==
    /\ Send(Response(msg.command, FALSE, err))
    /\ UNCHANGED <<hostVars, loopVars, lastSession>>

\* _handle_update_settings with settings = {'interval': msg.interval}.
\* int(None) raises TypeError, which only the dispatcher catches; int("abc")
\* raises ValueError, which the handler turns into an entry of 'errors'.
HandleUpdateSettings(msg) ==
    CASE msg.interval = NullInterval ->
           HandlerRaised(msg, ErrIntArgument)
      [] msg.interval = BadInterval ->
           /\ Send(Response("update_settings", FALSE, "Invalid interval value"))
           /\ UNCHANGED <<hostVars, loopVars, lastSession>>
      [] OTHER ->
           /\ SCREENSHOT_INTERVAL' = msg.interval
           /\ Send(Response("update_settings", TRUE, NoError))
           /\ UNCHANGED <<is_recording, recording_task, gui_interval, envVars,
                          loopVars, lastSession>>

\* _cleanup: stop the session if is_recording, then post event_loop.stop
Cleanup ==
    /\ IF is_recording
       THEN /\ is_recording' = FALSE
            /\ futState' = CancelledFutures(recording_task)
            /\ ready' = Append(CancelPosted(recording_task), Handle("stop", NoTask))
       ELSE /\ ready' = Append(ready, Handle("stop", NoTask))
            /\ UNCHANGED <<is_recording, futState>>
    /\ UNCHANGED <<recording_task, SCREENSHOT_INTERVAL, gui_interval, envVars, pc, kind,
                   mustCancel, interval, state, timers, nextTask>>

\* ----------------------------------------------- control thread: read loop
Message(c) == [command |-> c, interval |-> NoInterval]

CanRead == ctl = "read" /\ nread < MaxCommands

ReadStartRecording ==
    /\ CanRead
    /\ is_recording \/ nextTask <= MaxTasks
    /\ \E msg \in {[command |-> "start_recording", interval |-> i] :
                        i \in Intervals \cup {NoInterval}} :
          /\ cmd' = msg /\ nread' = nread + 1
          /\ HandleStartRecording(msg)
    /\ UNCHANGED <<ctl, waiting, stdin, store, faults, context, auxVars, stages, failed, appended, stopInCycle, stopInWait>>

ReadStopRecording ==
    /\ CanRead
    /\ cmd' = Message("stop_recording") /\ nread' = nread + 1
    /\ HandleStopRecording
    /\ UNCHANGED <<ctl, waiting, stdin, store, faults, context, auxVars, stages, failed, appended>>

ReadGetStatus ==
    /\ CanRead
    /\ cmd' = Message("get_status") /\ nread' = nread + 1
    /\ HandleGetStatus
    /\ UNCHANGED <<ctl, waiting, stdin, store, faults, context, auxVars, stages, failed, appended, stopInCycle, stopInWait>>

ReadCaptureNow ==
    /\ CanRead
    /\ nextTask <= MaxTasks
    /\ cmd' = Message("capture_now") /\ nread' = nread + 1
    /\ HandleCaptureNow
    /\ UNCHANGED <<stdin, store, faults, context, auxVars, stages, failed, appended, stopInCycle, stopInWait>>


ReadUnknown ==
    /\ CanRead
    /\ \E c \in {"bogus"} :
          /\ cmd' = Message(c) /\ nread' = nread + 1
          /\ HandleUnknown(Message(c))
    /\ UNCHANGED <<ctl, waiting, stdin, store, faults, context, auxVars, stages, failed, appended,
                   stopInCycle, stopInWait>>

ReadUpdateSettings ==
    /\ CanRead
    /\ \E msg \in {[command |-> "update_settings", interval |-> i] :
                        i \in Intervals \cup {BadInterval, NullInterval}} :
          /\ cmd' = msg /\ nread' = nread + 1
          /\ HandleUpdateSettings(msg)
    /\ UNCHANGED <<ctl, waiting, stdin, store, faults, context, auxVars, stages, failed, appended,
                   stopInCycle, stopInWait>>

\* _read_message returned None because stdin is closed: start leaves the
\* loop without a response and runs _cleanup
ReadEOF ==
    /\ ctl = "read" /\ stdin = <<>>
    /\ ctl' = "stopped"
    /\ Cleanup
    /\ UNCHANGED <<waiting, stdin, nread, cmd, out, nsent, store, faults, context, auxVars, obsVars>>

\* future.result returned the cycle's result
CaptureNowResult ==
    /\ ctl = "wait_capture"
    /\ futState[waiting] = "finished"
    /\ Send(IF state[waiting].success
          THEN Response("capture_now", TRUE, NoError)
          ELSE Response("capture_now", FALSE, state[waiting].error))
    /\ ctl' = "read"
    /\ waiting' = NoTask
    /\ state' = [state EXCEPT ![waiting] = InitialState]
    /\ UNCHANGED <<hostVars, stdin, nread, cmd, ready, pc, kind, futState, mustCancel, interval,
                   timers, nextTask, store, faults, context, auxVars, obsVars>>

\* The error of the capture_now response when future.result(timeout=30) raises
\* concurrent.futures.TimeoutError.  Where that class is asyncio.TimeoutError
\* (Python 3.11 and later, 3.7 and earlier) 'except asyncio.TimeoutError'
\* answers "Capture timeout"; on Python 3.8 to 3.10 the classes differ, the
\* handler falls through to 'except Exception' and answers str(e), which is
\* the empty string.
\* future.result timed out; the cycle is left running
CaptureNowTimeout ==
    /\ ctl = "wait_capture"
    /\ futState[waiting] = "pending"
    /\ \E err \in {ErrTimeout, ""} : Send(Response("capture_now", FALSE, err))
    /\ ctl' = "read"
    /\ waiting' = NoTask
    /\ UNCHANGED <<hostVars, stdin, nread, cmd, loopVars, store, faults, context, auxVars, obsVars>>


\* ------------------------------------------------------ worker: event loop
\* run_forever has not been stopped
Running == event_loop = "running"

\* A callback that has started and not yet reached an await owns the loop.
NoInline == \A t \in Tasks : pc[t] \notin {"check", "returned"}

FinishFuture(t) == [futState EXCEPT ![t] = IF @ = "pending" THEN "finished" ELSE @]

\* run_single_cycle is entered: the initial ActivityState is built.
BeginCycle(t) ==
    /\ pc' = [pc EXCEPT ![t] = "capture"]
    /\ state' = [state EXCEPT ![t] = InitialState]
    /\ stages' = [stages EXCEPT ![t] = <<>>]
    /\ failed' = [failed EXCEPT ![t] = {}]
    /\ appended' = [appended EXCEPT ![t] = 0]
    /\ stopInCycle' = [stopInCycle EXCEPT ![t] = FALSE]

\* 'while self.is_recording:' of start_continuous_recording
WhileIsRecording(t) ==
    IF is_recording
    THEN /\ BeginCycle(t)
         /\ UNCHANGED futState
    ELSE /\ pc' = [pc EXCEPT ![t] = "done"]
         /\ futState' = FinishFuture(t)
         /\ UNCHANGED <<state, stages, failed, appended, stopInCycle>>

\* the callback posted by run_coroutine_threadsafe: ensure_future creates the
\* task (its first step is queued) and _chain_future links it to the future;
\* a future cancelled in the meantime posts Task.cancel behind the first step.
RunCallback ==
    /\ Running
    /\ NoInline
    /\ ready # <<>> /\ Head(ready).kind = "callback"
    /\ LET t == Head(ready).task IN
       /\ pc' = [pc EXCEPT ![t] = "created"]
       /\ ready' = Tail(ready) \o <<Handle("step", t)>> \o
                   (IF futState[t] = "cancelled" THEN <<Handle("cancel", t)>> ELSE <<>>)
    /\ UNCHANGED <<hostVars, ctlVars, kind, futState, mustCancel, interval, state,
                   timers, nextTask, store, faults, context, auxVars, obsVars>>

\* first step of start_continuous_recording: 'self.is_recording = True'
StartLoopTask ==
    /\ Running
    /\ NoInline
    /\ ready # <<>> /\ Head(ready).kind = "step" /\ kind[Head(ready).task] = "loop"
    /\ is_recording' = TRUE
    /\ pc' = [pc EXCEPT ![Head(ready).task] = "check"]
    /\ ready' = Tail(ready)
    /\ UNCHANGED <<recording_task, SCREENSHOT_INTERVAL, gui_interval, envVars, ctlVars, kind,
                   futState, mustCancel, interval, state, timers, nextTask, store, faults, context, auxVars,
                   obsVars>>

\* first step of capture(): 'return await self.workflow.run_single_cycle()'
StartCaptureTask ==
    /\ Running
    /\ NoInline
    /\ ready # <<>> /\ Head(ready).kind = "step" /\ kind[Head(ready).task] = "capture"
    /\ BeginCycle(Head(ready).task)
    /\ ready' = Tail(ready)
    /\ UNCHANGED <<hostVars, ctlVars, kind, futState, mustCancel, interval, timers,
                   nextTask, store, faults, context, auxVars, stopInWait, lastSession>>

\* the loop condition is evaluated for the first time
LoopCheck(t) ==
    /\ Running
    /\ pc[t] = "check"
    /\ WhileIsRecording(t)
    /\ UNCHANGED <<hostVars, ctlVars, ready, kind, mustCancel, interval, timers,
                   nextTask, store, faults, context, auxVars, stopInWait, lastSession>>

\* Task.cancel runs on the loop: the future the task awaits is cancelled and
\* CancelledError will be thrown into the coroutine at its await.
RunCancel ==
    /\ Running
    /\ NoInline
    /\ ready # <<>> /\ Head(ready).kind = "cancel"
    /\ LET t == Head(ready).task IN
       CASE pc[t] = "sleep" ->
              /\ mustCancel' = [mustCancel EXCEPT ![t] = TRUE]
              /\ pc' = [pc EXCEPT ![t] = "woken"]
              /\ ready' = Append(Tail(ready), Handle("wakeup", t))
         [] pc[t] = "done" ->
              /\ ready' = Tail(ready)
              /\ UNCHANGED <<mustCancel, pc>>
         [] OTHER ->
              /\ mustCancel' = [mustCancel EXCEPT ![t] = TRUE]
              /\ ready' = Tail(ready)
              /\ UNCHANGED pc
    /\ UNCHANGED <<hostVars, ctlVars, kind, futState, interval, state,
                   timers, nextTask, store, faults, context, auxVars, obsVars>>

\* the handle posted by _cleanup runs: run_forever returns
RunStop ==
    /\ Running
    /\ NoInline
    /\ ready # <<>> /\ Head(ready).kind = "stop"
    /\ event_loop' = "stopped"
    /\ ready' = Tail(ready)
    /\ UNCHANGED <<is_recording, recording_task, SCREENSHOT_INTERVAL, gui_interval,
                   byteorder, stdout, frames, sent, ctlVars, pc, kind, futState,
                   mustCancel, interval, state, timers, nextTask, store, faults, context, auxVars, obsVars>>

\* the interval timer of asyncio.sleep(interval) fires
TimerExpire(t) ==
    /\ Running
    /\ pc[t] = "sleep"
    /\ timers < MaxTimers
    /\ timers' = timers + 1
    /\ pc' = [pc EXCEPT ![t] = "woken"]
    /\ ready' = Append(ready, Handle("wakeup", t))
    /\ UNCHANGED <<hostVars, ctlVars, kind, futState, mustCancel, interval, state,
                   nextTask, store, faults, context, auxVars, obsVars>>

\* the task resumes from 'await asyncio.sleep(interval)' with CancelledError,
\* caught by 'except asyncio.CancelledError' (is_recording = False)
WakeupCancelled ==
    /\ Running
    /\ NoInline
    /\ ready # <<>> /\ Head(ready).kind = "wakeup" /\ mustCancel[Head(ready).task]
    /\ is_recording' = FALSE
    /\ pc' = [pc EXCEPT ![Head(ready).task] = "done"]
    /\ futState' = FinishFuture(Head(ready).task)
    /\ ready' = Tail(ready)
    /\ stopInWait' = [stopInWait EXCEPT ![Head(ready).task] = FALSE]
    /\ UNCHANGED <<recording_task, SCREENSHOT_INTERVAL, gui_interval, envVars, ctlVars, kind,
                   mustCancel, interval, state, timers, nextTask, store, faults, context, auxVars,
                   stages, failed, appended, stopInCycle, lastSession>>

\* the sleep returned: the loop condition is evaluated again
WakeupResume ==
    /\ Running
    /\ NoInline
    /\ ready # <<>> /\ Head(ready).kind = "wakeup" /\ ~mustCancel[Head(ready).task]
    /\ WhileIsRecording(Head(ready).task)
    /\ ready' = Tail(ready)
    /\ stopInWait' = [stopInWait EXCEPT ![Head(ready).task] = FALSE]
    /\ UNCHANGED <<hostVars, ctlVars, kind, mustCancel, interval, timers,
                   nextTask, store, faults, context, auxVars, lastSession>>

\* ------------------------------------------------- worker: pipeline stages
\* variant: a failed capture leaves 'success' as the previous stage set it
capture_screenshot_NoFlag(st, ok) ==
    IF ok THEN [st EXCEPT !.screenshot_path = "path.png", !.success = TRUE,
                          !.error = NoError]
          ELSE [st EXCEPT !.error = ErrCaptureFailed, !.success = TRUE]

\* ActivityRecorderWorkflow._capture_screenshot
capture_screenshot(st, ok) ==
    IF ok THEN [st EXCEPT !.screenshot_path = "path.png", !.success = TRUE,
                          !.error = NoError]
          ELSE [st EXCEPT !.error = ErrCaptureFailed, !.success = FALSE]

AnalysisOutcomes == {"ok", "failed", "raise"}

\* outcomes a collaborator call may have while the fault budget lasts
MayFail(outcomes, good) == IF faults < MaxFaults THEN outcomes ELSE {good}

\* ActivityRecorderWorkflow._analyze_activity when capture succeeded: the
\* collaborator answers, reports analysis_successful = False, or raises.
analyze_activity(st, outcome) ==
    CASE outcome = "ok" ->
           [st EXCEPT !.activity_description = "coding",
                      !.analysis_successful = TRUE]
      [] outcome = "failed" ->
           [st EXCEPT !.activity_description = "Analysis failed",
                      !.analysis_successful = FALSE]
      [] OTHER ->
           [st EXCEPT !.error = "Failed to analyze activity",
                      !.activity_description = "Analysis failed",
                      !.analysis_successful = FALSE]

\* the last n elements of a sequence: q[-n:] for n > 0
LastN(q, n) == SubSeq(q, IF Len(q) > n THEN Len(q) - n + 1 ELSE 1, Len(q))

\* list(reversed(q))
reversed(q) == [i \in 1..Len(q) |-> q[Len(q) + 1 - i]]

\* ActivityStorage.get_recent_activities: the last 'limit' records of the
\* log, newest first
get_recent_activities(log, limit) == reversed(LastN(log, limit))

\* ActivityRecorderWorkflow._build_context: of recent_activities[-3:], the
\* records that have a description, in that order (one part per record)
build_context(recent_activities) ==
    SelectSeq(LastN(recent_activities, ContextSize),
              LAMBDA activity : activity.activity_description # "")

\* the record ActivityStorage.save_activity builds from the activity data
activity_record(st) ==
    [screenshot_path |-> st.screenshot_path,
     activity_description |-> st.activity_description,
     analysis_successful |-> st.analysis_successful,
     error |-> st.error]

\* ActivityStorage.save_activity: load, append, save; False when saving fails
save_activity(log, rec, ok) == IF ok THEN Append(log, rec) ELSE log

CaptureStage(t) ==
    /\ Running
    /\ pc[t] = "capture" /\ ~mustCancel[t]
    /\ \E ok \in MayFail(BOOLEAN, TRUE) :
          /\ state' = [state EXCEPT ![t] = capture_screenshot(@, ok)]
          /\ faults' = IF ok THEN faults ELSE faults + 1
          /\ failed' = [failed EXCEPT ![t] = IF ok THEN @ ELSE @ \cup {"capture"}]
    /\ stages' = [stages EXCEPT ![t] = Append(@, "capture")]
    /\ UNCHANGED <<context, auxVars>>
    /\ pc' = [pc EXCEPT ![t] = "analyze"]
    /\ UNCHANGED <<hostVars, ctlVars, ready, kind, futState, mustCancel, interval,
                   timers, nextTask, store, appended, stopInCycle, stopInWait,
                   lastSession>>

\* variant: the analysis collaborator is invoked whatever Capture returned
AnalyzeStage_Unconditional(t) ==
    /\ Running
    /\ pc[t] = "analyze" /\ ~mustCancel[t]
    /\ context' = build_context(get_recent_activities(store, RecentLimit))
    /\ \E o \in MayFail(AnalysisOutcomes, "ok") :
          /\ state' = [state EXCEPT ![t] = analyze_activity(@, o)]
          /\ faults' = IF o = "ok" THEN faults ELSE faults + 1
          /\ failed' = [failed EXCEPT ![t] =
                           IF o = "ok" THEN @ ELSE @ \cup {"analyze"}]
    /\ stages' = [stages EXCEPT ![t] = Append(@, "analyze")]
    /\ pc' = [pc EXCEPT ![t] = "store"]
    /\ UNCHANGED auxVars
    /\ UNCHANGED <<hostVars, ctlVars, ready, kind, futState, mustCancel, interval,
                   timers, nextTask, store, appended, stopInCycle, stopInWait,
                   lastSession>>

\* ActivityRecorderWorkflow._analyze_activity as a node of the graph
AnalyzeStage(t) ==
    /\ Running
    /\ pc[t] = "analyze" /\ ~mustCancel[t]
    /\ IF ~state[t].success
       THEN UNCHANGED <<state, stages, failed, faults, context>>
       ELSE /\ context' = build_context(get_recent_activities(store, RecentLimit))
            /\ \E o \in MayFail(AnalysisOutcomes, "ok") :
                  /\ state' = [state EXCEPT ![t] = analyze_activity(@, o)]
                  /\ faults' = IF o = "ok" THEN faults ELSE faults + 1
                  /\ failed' = [failed EXCEPT ![t] =
                                   IF o = "ok" THEN @ ELSE @ \cup {"analyze"}]
            /\ stages' = [stages EXCEPT ![t] = Append(@, "analyze")]
    /\ pc' = [pc EXCEPT ![t] = "store"]
    /\ UNCHANGED auxVars
    /\ UNCHANGED <<hostVars, ctlVars, ready, kind, futState, mustCancel, interval,
                   timers, nextTask, store, appended, stopInCycle, stopInWait,
                   lastSession>>

\* ActivityRecorderWorkflow._store_activity
StoreStage(t) ==
    /\ Running
    /\ pc[t] = "store" /\ ~mustCancel[t]
    /\ \E ok \in MayFail(BOOLEAN, TRUE) :
          /\ store' = save_activity(store, activity_record(state[t]), ok)
          /\ faults' = IF ok THEN faults ELSE faults + 1
          /\ appended' = [appended EXCEPT ![t] = @ + Len(store') - Len(store)]
          /\ failed' = [failed EXCEPT ![t] = IF ok THEN @ ELSE @ \cup {"store"}]
    /\ stages' = [stages EXCEPT ![t] = Append(@, "store")]
    /\ UNCHANGED <<context, auxVars>>
    /\ pc' = [pc EXCEPT ![t] = "cleanup"]
    /\ UNCHANGED <<hostVars, ctlVars, ready, kind, futState, mustCancel, interval,
                   state, timers, nextTask, stopInCycle, stopInWait, lastSession>>

\* ActivityRecorderWorkflow._cleanup; graph.ainvoke then hands the final state
\* back to run_single_cycle.
CleanupStage(t) ==
    /\ Running
    /\ pc[t] = "cleanup" /\ ~mustCancel[t]
    /\ stages' = [stages EXCEPT ![t] = Append(@, "cleanup")]
    /\ pc' = [pc EXCEPT ![t] = "returned"]
    /\ UNCHANGED <<hostVars, ctlVars, ready, kind, futState, mustCancel, interval,
                   state, timers, nextTask, store, faults, context, auxVars, failed, appended, stopInCycle, stopInWait,
                   lastSession>>

\* run_single_cycle returned its result to start_continuous_recording, which
\* logs it and goes on to 'await asyncio.sleep(interval)'.
LoopSleep(t) ==
    /\ Running
    /\ pc[t] = "returned" /\ kind[t] = "loop"
    /\ pc' = [pc EXCEPT ![t] = "sleep"]
    /\ state' = [state EXCEPT ![t] = InitialState]
    /\ stages' = [stages EXCEPT ![t] = <<>>]
    /\ failed' = [failed EXCEPT ![t] = {}]
    /\ appended' = [appended EXCEPT ![t] = 0]
    /\ stopInCycle' = [stopInCycle EXCEPT ![t] = FALSE]
    /\ UNCHANGED <<hostVars, ctlVars, ready, kind, futState, mustCancel, interval,
                   timers, nextTask, store, faults, context, auxVars, stopInWait, lastSession>>

\* run_single_cycle returned its result to capture(), which returns it: the
\* future of capture_now is done.
CaptureReturn(t) ==
    /\ Running
    /\ pc[t] = "returned" /\ kind[t] = "capture"
    /\ pc' = [pc EXCEPT ![t] = "done"]
    /\ futState' = FinishFuture(t)
    /\ state' = [state EXCEPT ![t] = IF waiting = t THEN @ ELSE InitialState]
    /\ stages' = [stages EXCEPT ![t] = <<>>]
    /\ failed' = [failed EXCEPT ![t] = {}]
    /\ appended' = [appended EXCEPT ![t] = 0]
    /\ stopInCycle' = [stopInCycle EXCEPT ![t] = FALSE]
    /\ UNCHANGED <<hostVars, ctlVars, ready, kind, mustCancel, interval,
                   timers, nextTask, store, faults, context, auxVars, stopInWait, lastSession>>

\* CancelledError is raised at 'await self.graph.ainvoke(...)': 'except
\* Exception' of run_single_cycle does not catch it, the loop's 'except
\* asyncio.CancelledError' does (is_recording = False) and the loop ends.
CycleCancelled(t) ==
    /\ Running
    /\ NoInline
    /\ InCycle(t) /\ mustCancel[t]
    /\ is_recording' = FALSE
    /\ pc' = [pc EXCEPT ![t] = "done"]
    /\ futState' = FinishFuture(t)
    /\ state' = [state EXCEPT ![t] = InitialState]
    /\ stages' = [stages EXCEPT ![t] = <<>>]
    /\ failed' = [failed EXCEPT ![t] = {}]
    /\ appended' = [appended EXCEPT ![t] = 0]
    /\ stopInCycle' = [stopInCycle EXCEPT ![t] = FALSE]
    /\ UNCHANGED <<recording_task, SCREENSHOT_INTERVAL, gui_interval, envVars, ctlVars, ready,
                   kind, mustCancel, interval, timers, nextTask, store, faults, context, auxVars,
                   stopInWait, lastSession>>

\* ------------------------------------------------------------ specification
Next ==
    \/ ReadStartRecording
    \/ ReadStopRecording
    \/ ReadGetStatus
    \/ ReadCaptureNow
    \/ ReadUnknown
    \/ ReadUpdateSettings
    \/ ReadEOF
    \/ CaptureNowResult
    \/ CaptureNowTimeout
    \/ RunCallback
    \/ StartLoopTask
    \/ StartCaptureTask
    \/ RunCancel
    \/ RunStop
    \/ WakeupCancelled
    \/ WakeupResume
    \/ \E t \in Tasks : TimerExpire(t)
    \/ \E t \in Tasks : LoopCheck(t)
    \/ \E t \in Tasks : CaptureStage(t)
    \/ \E t \in Tasks : AnalyzeStage(t)
    \/ \E t \in Tasks : StoreStage(t)
    \/ \E t \in Tasks : CleanupStage(t)
    \/ \E t \in Tasks : LoopSleep(t)
    \/ \E t \in Tasks : CaptureReturn(t)
    \/ \E t \in Tasks : CycleCancelled(t)

Spec == Init /\ [][Next]_vars

\* ------------------------------------------------ byte level: framed streams
\* Frames a peer may write: well-formed commands, and the malformed payloads
\* of the read path (not JSON, shorter than the length prefix, not UTF-8,
\* JSON but no object).
CommandFrame(c) == [kind |-> "valid", command |-> c]
FrameSet == {CommandFrame("get_status"), CommandFrame("bogus")}
               \cup {[kind |-> k, command |-> "none"] :
                        k \in {"bad_json", "truncated", "bad_utf8", "not_object"}}

\* the payload bytes of a frame and the length its prefix announces
FramePayload(f) ==
    CASE f.kind = "valid" ->
           json_dumps(JObject(<<Member("command", JString(Chars(f.command)))>>))
      [] f.kind = "bad_utf8"   -> <<InvalidByte>>
      [] f.kind = "not_object" -> <<LBracket, RBracket>>
      [] OTHER                 -> <<123, 98, 97, 100>>
FrameLength(f) ==
    IF f.kind = "truncated" THEN Len(FramePayload(f)) + 1 ELSE Len(FramePayload(f))
FrameBytes(f, order) == pack(FrameLength(f), order) \o FramePayload(f)

RECURSIVE Stream(_, _)
Stream(fs, order) ==
    IF fs = <<>> THEN <<>> ELSE FrameBytes(fs[1], order) \o Stream(Tail(fs), order)

FrameSeqs == UNION {[1..n -> FrameSet] : n \in 1..MaxFrames}

\* objects handed to _send_message
JsonObjects ==
    {JObject(<<>>),
     JObject(<<Member("command", JString(Chars("get_status")))>>),
     InvalidJsonMessage,
     JObject(<<Member("command", JArray(<<JString(Chars("bogus")), JObject(<<>>)>>))>>),
     JObject(<<Member("error", JObject(<<Member("command", JString(<<>>))>>))>>)}

\* message.get('command') of a decoded object, as a command name
RECURSIVE Lookup(_, _)
Lookup(members, key) ==
    IF members = <<>> THEN JString(<<>>)
    ELSE IF members[Len(members)].key = key THEN members[Len(members)].value
    ELSE Lookup(SubSeq(members, 1, Len(members) - 1), key)
CommandOf(m) ==
    LET c == Lookup(m.items, Chars("command")) IN
    IF c.type = "string" /\ \E n \in Names : Chars(n) = c.chars
    THEN CHOOSE n \in Names : Chars(n) = c.chars
    ELSE "None"
DecodedMessage(m) == [command |-> CommandOf(m), interval |-> NoInterval]

\* _process_message for the commands that occur in the framed streams
ProcessMessage(msg) ==
    IF msg.command = "get_status" THEN HandleGetStatus ELSE HandleUnknown(msg)

\* one iteration of the loop of start on a stream that has bytes left:
\* _read_message, then _process_message and _send_message, or _cleanup when
\* _read_message returned None
WireRead ==
    /\ ctl = "read" /\ stdin # <<>>
    /\ LET r == read_message(stdin, byteorder) IN
       /\ stdin' = r.rest
       /\ nread' = nread + 1
       /\ IF r.status = "ok"
          THEN /\ cmd' = DecodedMessage(r.message)
               /\ ProcessMessage(DecodedMessage(r.message))
               /\ UNCHANGED <<ctl, obsVars>>
          ELSE /\ ctl' = "stopped"
               /\ Cleanup
               /\ UNCHANGED <<cmd, out, nsent, obsVars>>
    /\ UNCHANGED <<waiting, store, faults, context, auxVars>>

\* _send_message(m) writes one frame
WireSend ==
    /\ ctl = "read"
    /\ \E m \in JsonObjects :
          /\ sent' = m
          /\ stdout' = send_message(m, byteorder)
    /\ UNCHANGED <<is_recording, recording_task, SCREENSHOT_INTERVAL, gui_interval,
                   event_loop, byteorder, frames, ctlVars, loopVars, store, faults, context, auxVars,
                   obsVars>>

InitWire ==
    /\ InitSession
    /\ byteorder \in ByteOrders
    /\ frames \in FrameSeqs
    /\ stdin = Stream(frames, byteorder)
    /\ store = <<>>

NextWire ==
    \/ WireRead
    \/ WireSend
    \/ ReadEOF
    \/ RunStop

SpecWire == InitWire /\ [][NextWire]_vars

\* ------------------------------------------------ time range queries
\* A point in time as datetime.now() returns it.
Instant(s, u) == [second |-> s, microsecond |-> u]
Instants == {Instant(s, u) : s \in 0..MaxSecond, u \in 0..MaxMicro}

\* datetime.isoformat: fixed-width fields, so a field is one symbol here; the
\* fraction is left out when microsecond is 0.
isoformat(d) ==
    IF d.microsecond = 0 THEN <<d.second>> ELSE <<d.second, d.microsecond>>

\* datetime.fromisoformat, as a count of microseconds
fromisoformat(text) ==
    text[1] * (MaxMicro + 1) + (IF Len(text) > 1 THEN text[2] ELSE 0)

\* str.__le__: lexicographic; a proper prefix is the smaller string
RECURSIVE str_le(_, _)
str_le(a, b) ==
    IF a = <<>> THEN TRUE
    ELSE IF b = <<>> THEN FALSE
    ELSE IF Head(a) # Head(b) THEN Head(a) < Head(b)
    ELSE str_le(Tail(a), Tail(b))

\* the record save_activity stores at instant d, as far as queries read it
StoredRecord(d) == [timestamp |-> isoformat(d), activity_description |-> ""]

\* message.get('start_time') / message.get('end_time'): None when the key is
\* missing, otherwise the string sent (which may be empty)
Arg(text) == [given |-> TRUE, text |-> text]
QueryArgs == {[given |-> FALSE, text |-> <<>>], Arg(<<>>)}
                \cup {Arg(isoformat(d)) : d \in Instants}

\* 'not start_time': None and the empty string are both false
Falsy(a) == ~a.given \/ a.text = <<>>

NoActivitySummary == "no recorded activity in this time range"

QueryResponse(ok, err, text, n) ==
    [command |-> "query_time_range", success |-> ok, error |-> err,
     summary |-> text, activities_count |-> n]

\* variant: the end of the range is exclusive
filtered_activities_Exclusive(log, start_time, end_time) ==
    SelectSeq(log, LAMBDA activity :
        /\ str_le(start_time, activity.timestamp)
        /\ str_le(activity.timestamp, end_time)
        /\ activity.timestamp # end_time)

\* the list comprehension of _handle_query_time_range
filtered_activities(log, start_time, end_time) ==
    SelectSeq(log, LAMBDA activity :
        /\ str_le(start_time, activity.timestamp)
        /\ str_le(activity.timestamp, end_time))

Matching(msg) ==
    filtered_activities(store, msg.start_time.text, msg.end_time.text)

\* _handle_query_time_range up to its return or to the blocking
\* future.result(timeout=30) on query_ai
HandleQueryTimeRange(msg) ==
    IF Falsy(msg.start_time) \/ Falsy(msg.end_time)
    THEN /\ Send(QueryResponse(FALSE, "start_time and end_time are required",
                                "None", 0))
         /\ UNCHANGED <<hostVars, loopVars, ctl, waiting>>
    ELSE IF Matching(msg) = <<>>
    THEN /\ Send(QueryResponse(TRUE, NoError, NoActivitySummary, 0))
         /\ UNCHANGED <<hostVars, loopVars, ctl, waiting>>
    ELSE /\ Schedule(nextTask, "query", NoInterval)
         /\ waiting' = nextTask
         /\ ctl' = "wait_query"
         /\ UNCHANGED <<hostVars, out, nsent>>

ReadQueryTimeRange ==
    /\ CanRead
    /\ \E msg \in {[command |-> "query_time_range", interval |-> NoInterval,
                       start_time |-> a, end_time |-> b] : a, b \in QueryArgs} :
          /\ ~Falsy(msg.start_time) /\ ~Falsy(msg.end_time) /\ Matching(msg) # <<>>
                => nextTask <= MaxTasks
          /\ cmd' = msg /\ nread' = nread + 1
          /\ HandleQueryTimeRange(msg)
    /\ UNCHANGED <<stdin, store, faults, context, auxVars, obsVars>>

\* first and only step of query_ai(): it returns its summary without awaiting
StartQueryTask ==
    /\ Running
    /\ NoInline
    /\ ready # <<>> /\ Head(ready).kind = "step" /\ kind[Head(ready).task] = "query"
    /\ pc' = [pc EXCEPT ![Head(ready).task] = "done"]
    /\ futState' = FinishFuture(Head(ready).task)
    /\ ready' = Tail(ready)
    /\ UNCHANGED <<hostVars, ctlVars, kind, mustCancel, interval, state, timers,
                   nextTask, store, faults, context, auxVars, obsVars>>

\* future.result returned the summary of query_ai; filtered_activities is the
\* list built before the wait (nothing here writes the log in between)
QueryResult ==
    /\ ctl = "wait_query"
    /\ futState[waiting] = "finished"
    /\ Send(QueryResponse(TRUE, NoError, "analysed activity records",
                           Len(Matching(cmd))))
    /\ ctl' = "read"
    /\ waiting' = NoTask
    /\ UNCHANGED <<hostVars, stdin, nread, cmd, loopVars, store, faults, context, auxVars, obsVars>>

\* the host answering queries over a log that earlier sessions wrote
InitQuery ==
    /\ InitSession
    /\ byteorder = "little"
    /\ frames = <<>>
    /\ stdin = <<>>
    /\ store \in UNION {[1..n -> {StoredRecord(d) : d \in Instants}] :
                            n \in 0..MaxRecords}

NextQuery ==
    \/ ReadQueryTimeRange
    \/ RunCallback
    \/ StartQueryTask
    \/ QueryResult

SpecQuery == InitQuery /\ [][NextQuery]_vars

\* ------------------------------------------------- screenshot directory
\* A file of the directory: its name is the second it was taken in
\* ('screenshot_%Y%m%d_%H%M%S.png'), ctime orders the files by creation.
File(name, ctime) == [name |-> name, ctime |-> ctime]

\* ScreenshotAgent.capture_screenshot: img.save(filepath) creates the file of
\* the current second, replacing a file of that name
capture_file(dir, second, ctime) ==
    {f \in dir : f.name # second} \cup {File(second, ctime)}

\* the files sorted by os.path.getctime, as the sequence of their ctimes
RECURSIVE SortedCtimes(_)
SortedCtimes(dir) ==
    IF dir = {} THEN <<>>
    ELSE LET oldest == CHOOSE f \in dir : \A g \in dir : f.ctime <= g.ctime IN
         <<oldest.ctime>> \o SortedCtimes(dir \ {oldest})

\* ScreenshotAgent.cleanup_old_screenshots
cleanup_old_screenshots(dir, keep_last_n) ==
    IF Cardinality(dir) <= keep_last_n THEN dir
    ELSE LET ctimes == SortedCtimes(dir)
             files_to_remove == SubSeq(ctimes, 1, Len(ctimes) - keep_last_n) IN
         {f \in dir : \A i \in 1..Len(files_to_remove) : f.ctime # files_to_remove[i]}

\* a second of the wall clock passes
ClockSecond ==
    /\ shots.second < MaxClock
    /\ shots' = [shots EXCEPT !.second = @ + 1]
    /\ UNCHANGED <<hostVars, ctlVars, loopVars, store, faults, context, io, gui, obsVars>>

\* the Capture stage of a cycle takes its screenshot
TakeScreenshot ==
    /\ ~shots.pending /\ Len(shots.created) < MaxCaptures
    /\ shots' = [shots EXCEPT !.dir = capture_file(@, shots.second, shots.ticks),
                              !.ticks = @ + 1,
                              !.created = Append(@, shots.second),
                              !.pending = TRUE]
    /\ UNCHANGED <<hostVars, ctlVars, loopVars, store, faults, context, io, gui, obsVars>>

\* the Cleanup stage of that cycle prunes the directory
CleanupScreenshots ==
    /\ shots.pending
    /\ shots' = [shots EXCEPT !.dir = cleanup_old_screenshots(@, KeepLastN),
                              !.pending = FALSE]
    /\ UNCHANGED <<hostVars, ctlVars, loopVars, store, faults, context, io, gui, obsVars>>

\* cycles run one after the other, each taking a screenshot and cleaning up
InitRetention ==
    /\ InitSession
    /\ byteorder = "little"
    /\ frames = <<>>
    /\ stdin = <<>>
    /\ store = <<>>

NextRetention ==
    \/ ClockSecond
    \/ TakeScreenshot
    \/ CleanupScreenshots

SpecRetention == InitRetention /\ [][NextRetention]_vars

\* ------------------------------------------------------ activity log file
\* The Store and Cleanup stages are synchronous functions that the graph
\* runs on executor threads, one thread per cycle in flight; the control
\* thread reads the same file.  io.file is the file on disk: whole = FALSE
\* while it is truncated or partly written.  io.saved lists the records for
\* which save_activity has returned True.

\* a record of the log: old = TRUE when it is past the retention period
LogRecord(id, old) == [id |-> id, old |-> old]

\* ActivityStorage._load_data: the activities of the file, or those of a
\* fresh document when json.load raises JSONDecodeError
load_data(file) == IF file.whole THEN file.activities ELSE <<>>

\* json.dump of _save_data has written the document and the file is closed
Dumped(activities) == [whole |-> TRUE, activities |-> activities]

InRetention(activity) == ~activity.old

\* save_activity: 'data = self._load_data()'
SaveLoad(w) ==
    /\ io.at[w] = "idle"
    /\ io' = [io EXCEPT !.data[w] = load_data(io.file), !.at[w] = "loaded"]
    /\ UNCHANGED <<hostVars, ctlVars, loopVars, store, faults, context, shots, gui, obsVars>>

\* save_activity: the record is appended to the loaded list and _save_data
\* opens the file for writing, which truncates it
SaveOpen(w) ==
    /\ io.at[w] = "loaded"
    /\ io' = [io EXCEPT !.data[w] = Append(@, LogRecord(w, FALSE)),
                        !.file = [whole |-> FALSE, activities |-> <<>>],
                        !.at[w] = "opened"]
    /\ UNCHANGED <<hostVars, ctlVars, loopVars, store, faults, context, shots, gui, obsVars>>

\* save_activity: json.dump writes the document; save_activity returns True
SaveDump(w) ==
    /\ io.at[w] = "opened"
    /\ io' = [io EXCEPT !.file = Dumped(io.data[w]),
                        !.saved = Append(@, LogRecord(w, FALSE)),
                        !.at[w] = "saved"]
    /\ UNCHANGED <<hostVars, ctlVars, loopVars, store, faults, context, shots, gui, obsVars>>

\* cleanup_old_activities: load; 'if not activities: return 0'; otherwise
\* the records past the cutoff are dropped from the loaded list
CleanLoad(w) ==
    /\ io.at[w] = "saved"
    /\ LET activities == load_data(io.file) IN
       io' = [io EXCEPT !.data[w] = SelectSeq(activities, InRetention),
                        !.at[w] = IF activities = <<>> THEN "finished" ELSE "filtered"]
    /\ UNCHANGED <<hostVars, ctlVars, loopVars, store, faults, context, shots, gui, obsVars>>

\* cleanup_old_activities: _save_data opens the file for writing
CleanOpen(w) ==
    /\ io.at[w] = "filtered"
    /\ io' = [io EXCEPT !.file = [whole |-> FALSE, activities |-> <<>>],
                        !.at[w] = "reopened"]
    /\ UNCHANGED <<hostVars, ctlVars, loopVars, store, faults, context, shots, gui, obsVars>>

\* cleanup_old_activities: json.dump writes the filtered document
CleanDump(w) ==
    /\ io.at[w] = "reopened"
    /\ io' = [io EXCEPT !.file = Dumped(io.data[w]), !.at[w] = "finished"]
    /\ UNCHANGED <<hostVars, ctlVars, loopVars, store, faults, context, shots, gui, obsVars>>

\* the control thread reads the log (get_activities, query_time_range)
ControlLoad ==
    /\ io.view # load_data(io.file)
    /\ io' = [io EXCEPT !.view = load_data(io.file)]
    /\ UNCHANGED <<hostVars, ctlVars, loopVars, store, faults, context, shots, gui, obsVars>>

\* the log as earlier sessions left it; cycles that overlap store and clean
InitLog ==
    /\ is_recording = FALSE
    /\ recording_task = NoTask
    /\ SCREENSHOT_INTERVAL = DefaultInterval
    /\ gui_interval \in GuiIntervals
    /\ event_loop = "running"
    /\ byteorder = "little"
    /\ stdout = <<>> /\ frames = <<>> /\ stdin = <<>>
    /\ sent = JString(<<>>)
    /\ ctl = "read" /\ waiting = NoTask /\ nread = 0
    /\ cmd = NoMessage /\ out = NoResponse /\ nsent = 0
    /\ ready = <<>>
    /\ pc = [t \in Tasks |-> "none"]
    /\ kind = [t \in Tasks |-> "none"]
    /\ futState = [t \in Tasks |-> "none"]
    /\ mustCancel = [t \in Tasks |-> FALSE]
    /\ interval = [t \in Tasks |-> NoInterval]
    /\ state = [t \in Tasks |-> InitialState]
    /\ timers = 0 /\ nextTask = 1 /\ faults = 0
    /\ store = <<>>
    /\ stages = [t \in Tasks |-> <<>>]
    /\ appended = [t \in Tasks |-> 0]
    /\ failed = [t \in Tasks |-> {}]
    /\ stopInCycle = [t \in Tasks |-> FALSE]
    /\ stopInWait = [t \in Tasks |-> FALSE]
    /\ lastSession = "none"
    /\ context = <<>>
    /\ shots = InitShots
    /\ gui = InitGui
    /\ \E log \in {<<>>, <<LogRecord(0, TRUE)>>} :
          io = [InitIo EXCEPT !.file = Dumped(log), !.view = log]

NextLog ==
    \/ \E w \in 1..MaxWriters : SaveLoad(w)
    \/ \E w \in 1..MaxWriters : SaveOpen(w)
    \/ \E w \in 1..MaxWriters : SaveDump(w)
    \/ \E w \in 1..MaxWriters : CleanLoad(w)
    \/ \E w \in 1..MaxWriters : CleanOpen(w)
    \/ \E w \in 1..MaxWriters : CleanDump(w)
    \/ ControlLoad

SpecLog == InitLog /\ [][NextLog]_vars

\* -------------------------------------------------- window: worker thread
\* gui.main is the position of the GUI thread: "idle" in the Qt event loop,
\* "wait" in recording_thread.wait(5000), "wait2" in wait(2000) after
\* terminate(), "finally" before the finally block of stop_recording,
\* "exited" after QCoreApplication.quit().  gui.thread[w] = "running" while
\* QThread w isRunning().  gui.stop[w] is the stop request posted to worker
\* w, gui.expired[w] that wait(5000) returned False, gui.terminated[w] that
\* terminate() was called, gui.refused that a start_recording returned at
\* its guard.

ThreadIsRunning(g) ==
    /\ g.recording_thread # NoWorker
    /\ g.thread[g.recording_thread] = "running"

\* MainWindow.start_recording: returns while worker, thread and isRunning();
\* otherwise a new RecordingWorker and QThread are created and started
GuiStartRecording ==
    /\ gui.main = "idle"
    /\ IF gui.recording_worker # NoWorker /\ ThreadIsRunning(gui)
         THEN gui' = [gui EXCEPT !.refused = TRUE]
         ELSE \E w \in 1..MaxThreads :
                 /\ gui.thread[w] = "none"
                 /\ \A v \in 1..(w - 1) : gui.thread[v] # "none"
                 /\ gui' = [gui EXCEPT !.recording_worker = w,
                                       !.recording_thread = w,
                                       !.thread[w] = "running"]
    /\ UNCHANGED <<hostVars, ctlVars, loopVars, store, faults, context, shots, io, obsVars>>

\* RecordingWorker.start_recording, the slot of QThread.started: the event
\* loop and the recording task are created, run_until_complete blocks
WorkerStartSlot(w) ==
    /\ gui.thread[w] = "running"
    /\ ~gui.loop[w]
    /\ gui' = [gui EXCEPT !.loop[w] = TRUE]
    /\ UNCHANGED <<hostVars, ctlVars, loopVars, store, faults, context, shots, io, obsVars>>

\* MainWindow.stop_recording up to the first wait: the stop request is
\* posted to the worker's loop, or queued as a slot when the loop is not
\* there yet; quit() is called on a running thread
StopRequest(g) ==
    LET w == g.recording_worker
        t == g.recording_thread
        posted == IF w = NoWorker THEN g
                  ELSE [g EXCEPT !.stop[w] = IF g.loop[w] THEN "async" ELSE "queued"]
    IN  IF ThreadIsRunning(g)
          THEN [posted EXCEPT !.quit[t] = TRUE, !.main = "wait"]
          ELSE [posted EXCEPT !.main = "finally"]

\* 'if not self.recording_worker and not self.recording_thread: return'
GuiStopRecording ==
    /\ gui.main = "idle"
    /\ gui' = IF gui.recording_worker = NoWorker /\ gui.recording_thread = NoWorker
                THEN gui
                ELSE StopRequest(gui)
    /\ UNCHANGED <<hostVars, ctlVars, loopVars, store, faults, context, shots, io, obsVars>>

\* MainWindow._perform_shutdown: stop_recording when a worker or a thread is
\* referenced, then QCoreApplication.quit()
GuiShutdown ==
    /\ gui.main = "idle"
    /\ gui' = IF gui.recording_worker # NoWorker \/ gui.recording_thread # NoWorker
                THEN [StopRequest(gui) EXCEPT !.closing = TRUE]
                ELSE [gui EXCEPT !.closing = TRUE, !.main = "exited"]
    /\ UNCHANGED <<hostVars, ctlVars, loopVars, store, faults, context, shots, io, obsVars>>

\* the worker's task ends on the posted request, its start slot returns and
\* the thread leaves its Qt event loop, which quit() has ended
ThreadFinish(w) ==
    /\ gui.thread[w] = "running"
    /\ gui.loop[w]
    /\ gui.stop[w] = "async"
    /\ gui.quit[w]
    /\ gui' = [gui EXCEPT !.thread[w] = "finished"]
    /\ UNCHANGED <<hostVars, ctlVars, loopVars, store, faults, context, shots, io, obsVars>>

\* QThread.terminate() takes effect
ThreadTerminated(w) ==
    /\ gui.thread[w] = "running"
    /\ gui.terminated[w]
    /\ gui' = [gui EXCEPT !.thread[w] = "finished"]
    /\ UNCHANGED <<hostVars, ctlVars, loopVars, store, faults, context, shots, io, obsVars>>

\* wait(5000) returns True
WaitGraceful ==
    /\ gui.main = "wait"
    /\ ~ThreadIsRunning(gui)
    /\ gui' = [gui EXCEPT !.main = "finally"]
    /\ UNCHANGED <<hostVars, ctlVars, loopVars, store, faults, context, shots, io, obsVars>>

\* wait(5000) returns False and terminate() is called; an exception of
\* terminate() is caught by 'except Exception' of stop_recording
WaitExpired ==
    /\ gui.main = "wait"
    /\ ThreadIsRunning(gui)
    /\ \E outcome \in {"called", "raises"} :
          gui' = [gui EXCEPT !.expired[gui.recording_thread] = TRUE,
                             !.terminated[gui.recording_thread] = (outcome = "called"),
                             !.main = IF outcome = "called" THEN "wait2" ELSE "finally"]
    /\ UNCHANGED <<hostVars, ctlVars, loopVars, store, faults, context, shots, io, obsVars>>

\* wait(2000) returns; False is logged only
WaitTerminated ==
    /\ gui.main = "wait2"
    /\ gui' = [gui EXCEPT !.main = "finally"]
    /\ UNCHANGED <<hostVars, ctlVars, loopVars, store, faults, context, shots, io, obsVars>>

\* variant: the references are dropped whatever the thread does
StopFinally_Unconditional ==
    /\ gui.main = "finally"
    /\ gui' = [gui EXCEPT !.recording_worker = NoWorker,
                          !.recording_thread = NoWorker,
                          !.main = IF gui.closing THEN "exited" ELSE "idle"]
    /\ UNCHANGED <<hostVars, ctlVars, loopVars, store, faults, context, shots, io, obsVars>>

\* the finally block of stop_recording: the references are kept while the
\* thread isRunning() and set to None otherwise
StopFinally ==
    /\ gui.main = "finally"
    /\ gui' = [gui EXCEPT !.recording_worker = IF ThreadIsRunning(gui) THEN @ ELSE NoWorker,
                          !.recording_thread = IF ThreadIsRunning(gui) THEN @ ELSE NoWorker,
                          !.main = IF gui.closing THEN "exited" ELSE "idle"]
    /\ UNCHANGED <<hostVars, ctlVars, loopVars, store, faults, context, shots, io, obsVars>>

InitWindow ==
    /\ InitSession
    /\ byteorder = "little"
    /\ frames = <<>>
    /\ stdin = <<>>
    /\ store = <<>>

NextWindow ==
    \/ GuiStartRecording
    \/ GuiStopRecording
    \/ GuiShutdown
    \/ \E w \in 1..MaxThreads : WorkerStartSlot(w)
    \/ \E w \in 1..MaxThreads : ThreadFinish(w)
    \/ \E w \in 1..MaxThreads : ThreadTerminated(w)
    \/ WaitGraceful
    \/ WaitExpired
    \/ WaitTerminated
    \/ StopFinally

SpecWindow == InitWindow /\ [][NextWindow]_vars

\* ------------------------------------------------ context of the analysis
\* A record an earlier cycle stored: the i-th of the log, with the description
\* the analysis gave it ("" when its capture failed).
LoggedRecord(i, desc) == [timestamp |-> i, activity_description |-> desc]

\* the host running capture_now cycles over a log that earlier cycles wrote
InitContext ==
    /\ InitSession
    /\ byteorder = "little"
    /\ frames = <<>>
    /\ stdin = <<>>
    /\ store \in UNION {{[i \in 1..n |-> LoggedRecord(i, d[i])] :
                               d \in [1..n -> {"", "coding"}]} : n \in 0..MaxStored}

NextContext ==
    \/ ReadCaptureNow
    \/ CaptureNowResult
    \/ RunCallback
    \/ StartCaptureTask
    \/ \E t \in Tasks : CaptureStage(t)
    \/ \E t \in Tasks : AnalyzeStage(t)
    \/ \E t \in Tasks : StoreStage(t)
    \/ \E t \in Tasks : CleanupStage(t)
    \/ \E t \in Tasks : CaptureReturn(t)

SpecContext == InitContext /\ [][NextContext]_vars

\* ------------------------------------------------ byte level: output stream
\* The JSON object of a response, as far as framing goes: its command member.
ResponseObject(r) == JObject(<<Member("command", JString(Chars(r.command)))>>)

\* The output stream as its reader cuts it: the payloads of the complete
\* frames it starts with and the bytes behind them.
RECURSIVE SplitFrames(_, _)
SplitFrames(s, order) ==
    IF Len(s) < 4 THEN [payloads |-> <<>>, rest |-> s]
    ELSE LET n == unpack(Take(s, 4), order) IN
         IF Len(s) < 4 + n THEN [payloads |-> <<>>, rest |-> s]
         ELSE LET tail == SplitFrames(Drop(s, 4 + n), order) IN
              [payloads |-> <<SubSeq(s, 5, 4 + n)>> \o tail.payloads,
               rest |-> tail.rest]

\* _send_message has returned for every response handed to it
Written ==
    LET sp == SplitFrames(stdout, byteorder) IN
    sp.rest = <<>> /\ Len(sp.payloads) = nsent

\* _send_message, first write: struct.pack('=I', len(message_bytes))
WriteLength ==
    /\ ctl = "read"
    /\ LET sp == SplitFrames(stdout, byteorder) IN
       sp.rest = <<>> /\ Len(sp.payloads) < nsent
    /\ stdout' = stdout \o pack(Len(json_dumps(ResponseObject(out))), byteorder)
    /\ UNCHANGED <<is_recording, recording_task, SCREENSHOT_INTERVAL, gui_interval,
                   event_loop, byteorder, frames, sent, ctlVars, loopVars, store,
                   faults, context, auxVars, obsVars>>

\* variant: the payload is written without its last byte
WritePayload_Short ==
    /\ ctl = "read"
    /\ SplitFrames(stdout, byteorder).rest # <<>>
    /\ LET message_bytes == json_dumps(ResponseObject(out)) IN
       stdout' = stdout \o Take(message_bytes, Len(message_bytes) - 1)
    /\ sent' = ResponseObject(out)
    /\ UNCHANGED <<is_recording, recording_task, SCREENSHOT_INTERVAL, gui_interval,
                   event_loop, byteorder, frames, ctlVars, loopVars, store,
                   faults, context, auxVars, obsVars>>

\* _send_message, second write and flush: the payload
WritePayload ==
    /\ ctl = "read"
    /\ SplitFrames(stdout, byteorder).rest # <<>>
    /\ stdout' = stdout \o json_dumps(ResponseObject(out))
    /\ sent' = ResponseObject(out)
    /\ UNCHANGED <<is_recording, recording_task, SCREENSHOT_INTERVAL, gui_interval,
                   event_loop, byteorder, frames, ctlVars, loopVars, store,
                   faults, context, auxVars, obsVars>>

\* the loop of start reads the next command when _send_message has returned
OutStartRecording == Written /\ ReadStartRecording
OutStopRecording  == Written /\ ReadStopRecording
OutGetStatus      == Written /\ ReadGetStatus

\* the host on a machine of either byte order, nothing written yet
InitOutput ==
    /\ InitSession
    /\ byteorder \in ByteOrders
    /\ frames = <<>>
    /\ stdin = <<>>
    /\ store = <<>>

\* the host writing its responses while the worker runs the first cycle of a
\* session and its interval wait
NextOutput ==
    \/ OutStartRecording
    \/ OutStopRecording
    \/ OutGetStatus
    \/ WriteLength
    \/ WritePayload
    \/ RunCallback
    \/ StartLoopTask
    \/ RunCancel
    \/ WakeupCancelled
    \/ \E t \in Tasks : LoopCheck(t)
    \/ \E t \in Tasks : CaptureStage(t)
    \/ \E t \in Tasks : AnalyzeStage(t)
    \/ \E t \in Tasks : StoreStage(t)
    \/ \E t \in Tasks : CleanupStage(t)
    \/ \E t \in Tasks : LoopSleep(t)
    \/ \E t \in Tasks : CycleCancelled(t)

SpecOutput == InitOutput /\ [][NextOutput]_vars

\* ------------------------------------------------------------------ claims
\* a step of the control thread that reads and handles command c
Handles(c) == nread' = nread + 1 /\ cmd'.command = c

\* stages of a cycle after Capture has produced its result
MidCycle(t) == pc[t] \in {"analyze", "store", "cleanup"}

\* C1: at most one continuous-recording loop is active at any instant, for
\* every sequence of start/stop requests and every interleaving of the
\* control thread with the worker loop.
C1_SingleActiveLoop ==
    Cardinality({t \in Tasks : LoopActive(t)}) <= 1

\* C2: of two start_recording commands dispatched back to back, the first
\* succeeding, the second is answered success = false with "Recording is
\* already running", whether or not the worker has begun the first coroutine.
C2_SecondStartRejected ==
    [][(Handles("start_recording") /\ cmd.command = "start_recording"
            /\ out.command = "start_recording" /\ out.success)
         => (out'.success = FALSE /\ out'.error = ErrAlreadyRunning)]_vars

\* C3: a start_recording handled while is_recording is true is rejected and
\* leaves is_recording, recording_task and Config.SCREENSHOT_INTERVAL
\* unchanged and schedules no coroutine, whatever interval it carries.
C3_RejectedStartChangesNothing ==
    [][(Handles("start_recording") /\ is_recording)
         => (/\ out'.command = "start_recording"
             /\ out'.success = FALSE
             /\ out'.error = ErrAlreadyRunning
             /\ UNCHANGED <<is_recording, recording_task, SCREENSHOT_INTERVAL,
                            ready, pc, kind, futState, nextTask>>)]_vars

\* a start carrying an interval other than the configured one was rejected
C3_Witness ==
    /\ ctl = "read"
    /\ cmd.command = "start_recording"
    /\ cmd.interval # NoInterval /\ cmd.interval # get_screenshot_interval
    /\ out = Response("start_recording", FALSE, ErrAlreadyRunning)
    /\ is_recording

\* C4: a stop_recording handled while no session is running is answered
\* success = false with "Recording is not running"; is_recording stays false
\* and no task is cancelled.
C4_IdleStopChangesNothing ==
    [][(Handles("stop_recording") /\ ~is_recording)
         => (/\ out' = Response("stop_recording", FALSE, ErrNotRunning)
             /\ UNCHANGED <<is_recording, recording_task, futState, ready,
                            mustCancel, pc>>)]_vars

\* a stop was rejected while a scheduled recording task was still pending
C4_Witness ==
    /\ ctl = "read"
    /\ cmd.command = "stop_recording"
    /\ out = Response("stop_recording", FALSE, ErrNotRunning)
    /\ recording_task # NoTask /\ futState[recording_task] = "pending"

\* C5: Stop is cooperative: a scheduled cycle that was executing when Stop
\* succeeded still runs its remaining stages through Store and Cleanup.
C5_StopIsCooperative ==
    [][\A t \in Tasks :
          (kind[t] = "loop" /\ stopInCycle[t] /\ MidCycle(t))
             => pc'[t] \in StageNames \cup {"returned"}]_vars

\* C6: whenever is_recording is false after a Stop, no stage of a
\* scheduled-loop cycle is still executing.
C6_IdleMeansNoCycle ==
    (lastSession = "stop" /\ ~is_recording)
       => \A t \in Tasks : kind[t] = "loop" => ~InCycle(t)

\* C7: a loop that was in its interval wait when Stop succeeded leaves the
\* wait only by being cancelled: the sleep never runs to completion and the
\* loop starts no further cycle.
C7_StopInterruptsWait ==
    [][\A t \in Tasks :
          (stopInWait[t] /\ pc[t] \in {"sleep", "woken"}
                         /\ pc'[t] \notin {"sleep", "woken"})
             => (mustCancel[t] /\ pc'[t] = "done")]_vars

\* C8: every cycle that starts ends by returning a result, having appended
\* exactly one record to the activity log, whichever stage failed.
C8_OneResultOneRecord ==
    [][\A t \in Tasks :
          (InCycle(t) /\ ~InCycle(t)')
             => (pc'[t] = "returned" /\ appended'[t] = 1)]_vars

\* C9: run_single_cycle never raises: a cycle in flight either goes on to
\* its next stage or returns a result, also when its task is cancelled.
C9_CycleNeverRaises ==
    [][\A t \in Tasks :
          InCycle(t) => (InCycle(t)' \/ (pc'[t] = "returned" /\ ~mustCancel[t]))]_vars

\* C10: the stages of a capture_now cycle are never interleaved with the
\* stages of a scheduled-loop cycle.
C10_NoOverlappingCycles ==
    \A t1, t2 \in Tasks :
        (kind[t1] = "loop" /\ kind[t2] = "capture")
           => ~(MidCycle(t1) /\ MidCycle(t2))

\* C11: when the capture_now cycle has not finished at the timeout, the
\* handler answers success = false with the timeout error, leaves the cycle
\* running (nothing is cancelled) and the control thread reads on.
C11_CaptureNowTimeout ==
    [][(ctl = "wait_capture" /\ ctl' = "read" /\ futState[waiting] = "pending")
         => (/\ out' = Response("capture_now", FALSE, ErrTimeout)
             /\ nsent' = nsent + 1
             /\ UNCHANGED <<pc, futState, mustCancel, ready, event_loop>>)]_vars

\* C13: commands are answered one by one in arrival order: whenever the
\* control thread is about to read, every frame read so far has its response
\* written and the last response echoes the last command's name; while it
\* blocks in capture_now exactly the response of that command is missing.
C13_OneResponseInOrder ==
    /\ ctl \in {"read", "stopped"} =>
          (nsent = nread /\ (nread > 0 => out.command = cmd.command))
    /\ ctl = "wait_capture" => nsent = nread - 1

\* a capture_now has been answered after the control thread waited for it
C13_Witness ==
    /\ ctl = "read" /\ nread >= 2
    /\ cmd.command = "capture_now" /\ out.command = "capture_now"

\* C14: the dispatcher never raises: every decoded command is answered (or
\* waited for) with a response carrying a boolean success; an unknown
\* command is answered success = false with an error and changes no session
\* state; a handler that raises is answered success = false with its error.
C14_DispatcherNeverRaises ==
    [][(nread' = nread + 1)
         => (/\ ctl' \in {"read", "wait_capture"}
             /\ ctl' = "read" =>
                   (/\ nsent' = nsent + 1
                    /\ out'.success \in BOOLEAN
                    /\ out'.command = cmd'.command)
             /\ cmd'.command \in {"bogus"} =>
                   (/\ out'.success = FALSE /\ out'.error = ErrUnknown
                    /\ UNCHANGED <<is_recording, recording_task, SCREENSHOT_INTERVAL,
                                   ready, pc, futState, mustCancel, store>>)
             /\ (cmd'.command = "update_settings" /\ cmd'.interval = NullInterval) =>
                   (out'.success = FALSE /\ out'.error = ErrIntArgument))]_vars

\* an unknown command was answered while a session was running
C14_Witness ==
    /\ cmd.command \in {"bogus"}
    /\ out = Response(cmd.command, FALSE, ErrUnknown)
    /\ is_recording /\ recording_task # NoTask

\* C15: once the input stream has closed and the worker loop is stopped, the
\* session is stopped: is_recording is false and the recording task is no
\* longer pending, also when its coroutine had not run yet; no response is
\* written for the end of the stream.
C15_EOFStopsSession ==
    event_loop = "stopped" =>
       (/\ ~is_recording
        /\ recording_task # NoTask => futState[recording_task] # "pending"
        /\ nsent = nread)

\* C17: get_status changes no session state and, after a start_recording
\* answered success = true with no stop_recording since, reports
\* is_recording = true.
C17_StatusSnapshot ==
    [][Handles("get_status")
         => (/\ UNCHANGED <<is_recording, recording_task, SCREENSHOT_INTERVAL,
                            ready, pc, futState, mustCancel, store>>
             /\ lastSession = "start" => out'.is_recording = TRUE)]_vars

\* C18: a cycle whose capture stage failed returns success = false with the
\* capture error, did not invoke the analysis collaborator and ran Store and
\* Cleanup.
C18_CaptureFailure ==
    \A t \in Tasks :
        (pc[t] = "returned" /\ "capture" \in failed[t])
           => (/\ state[t].success = FALSE
               /\ state[t].error = ErrCaptureFailed
               /\ stages[t] = <<"capture", "store", "cleanup">>)

\* a cycle returned after its capture failed
C18_Witness ==
    \E t \in Tasks : pc[t] = "returned" /\ "capture" \in failed[t]

\* C19: a cycle whose capture succeeded and whose analysis failed returns
\* success = false with the analysis error and ran Store and Cleanup.
C19_AnalysisFailure ==
    \A t \in Tasks :
        (pc[t] = "returned" /\ "analyze" \in failed[t])
           => (/\ state[t].success = FALSE
               /\ state[t].error # NoError
               /\ stages[t] = <<"capture", "analyze", "store", "cleanup">>)

\* C12: every frame of the stream is answered and the loop goes on: a frame
\* whose payload is truncated, not JSON, not UTF-8 or no object gets one
\* response with success = false, and a valid frame is decoded as the command
\* it carries and answered normally, whatever preceded it.
C12_FrameRobustness ==
    [][(nread' = nread + 1 /\ nread < Len(frames))
         => LET f == frames[nread + 1] IN
            /\ ctl' = "read"
            /\ nsent' = nsent + 1
            /\ f.kind # "valid" => out'.success = FALSE
            /\ f.kind = "valid" =>
                  (cmd'.command = f.command /\ out'.command = f.command)]_vars

\* the frame written last, read back from a stream that continues after it
Echo == read_message(stdout \o stdout, byteorder)

InRange(msg) ==
    {i \in 1..Len(store) :
        /\ fromisoformat(msg.start_time.text) <= fromisoformat(store[i].timestamp)
        /\ fromisoformat(store[i].timestamp) <= fromisoformat(msg.end_time.text)}

\* the response a query_time_range message is due
QueryAnswered(msg, response) ==
    /\ response.command = "query_time_range"
    /\ IF Falsy(msg.start_time) \/ Falsy(msg.end_time)
       THEN ~response.success
       ELSE /\ response.success
            /\ response.activities_count = Cardinality(InRange(msg))
            /\ InRange(msg) = {} => response.summary = NoActivitySummary

\* C20: a query_time_range with start_time and end_time is answered
\* success=true with activities_count the number of stored records whose
\* timestamp lies between them, bounds included (0 and the no-activity
\* summary when there is none); with start_time or end_time missing it is
\* answered success=false; the log is not changed on the way.
C20_QueryTimeRange ==
    [][cmd'.command = "query_time_range" =>
          /\ store' = store
          /\ nsent' # nsent => QueryAnswered(cmd', out')]_vars
C20_Witness ==
    /\ cmd.command = "query_time_range" /\ ctl = "read"
    /\ out.command = "query_time_range" /\ out.success
    /\ out.activities_count = 1 /\ Len(store) = 2
    /\ \E i \in 1..2 : store[i].timestamp = cmd.end_time.text
    /\ \E i \in 1..2 : Len(store[i].timestamp) = 2

\* the stages a cycle runs from entry to END, given what Capture returned
StageOrder(t) ==
    IF "capture" \in failed[t]
    THEN <<"capture", "store", "cleanup">>
    ELSE <<"capture", "analyze", "store", "cleanup">>

\* how many of them have run when the cycle stands at its current node
StagesDone(t) ==
    CASE pc[t] = "capture"  -> 0
      [] pc[t] = "analyze"  -> 1
      [] pc[t] = "store"    -> Len(StageOrder(t)) - 2
      [] pc[t] = "cleanup"  -> Len(StageOrder(t)) - 1
      [] OTHER              -> Len(StageOrder(t))

HasDescription(activity) == activity.activity_description # ""

\* the analysis collaborator is invoked by the cycle of task t
InvokesAnalysis(t) == pc[t] = "analyze" /\ pc'[t] = "store" /\ state[t].success

\* C22: the context passed to the analysis collaborator is built from the 3
\* most recently stored records (all of them when there are fewer) that have
\* a description, oldest first and newest last.
C22_ContextLastThree ==
    [][\A t \in Tasks :
          InvokesAnalysis(t)
             => \/ context' = SelectSeq(LastN(store, ContextSize), HasDescription)
                \/ context' = LastN(SelectSeq(store, HasDescription), ContextSize)]_vars

\* C23: a cycle whose store stage failed to persist the record still returns
\* a result (nothing is raised), carries the failure in the error field of
\* that result, tried the store once and ran Cleanup after it.
C23_StoreFailure ==
    \A t \in Tasks :
        "store" \in failed[t]
           => /\ pc[t] \in {"cleanup", "returned"}
              /\ Len(SelectSeq(stages[t], LAMBDA stage : stage = "store")) = 1
              /\ pc[t] = "returned"
                    => /\ state[t].error # NoError
                       /\ stages[t][Len(stages[t])] = "cleanup"

\* a stop of the loop of task t has been asked for: its future was cancelled
\* (stop_recording, or _cleanup at end of input), or stop_recording is the
\* session command acknowledged last
StopRequested(t) ==
    \/ futState[t] = "cancelled" \/ mustCancel[t]
    \/ lastSession = "stop" \/ ctl = "stopped"

\* C24: a recording loop runs its first cycle at once and then alternates
\* between one cycle and one interval wait: a cycle starts only at the start
\* of the loop or when the wait has timed out, a wait starts only when a
\* cycle has returned, whatever its result, and the loop does not end before
\* a stop is requested.
C24_LoopAlternates ==
    [][\A t \in Tasks :
          kind[t] = "loop" /\ pc'[t] # pc[t]
             => /\ pc[t] = "check" => pc'[t] = "capture" \/ StopRequested(t)
                /\ pc'[t] = "capture"
                      => pc[t] = "check" \/ (pc[t] = "woken" /\ ~mustCancel[t])
                /\ pc'[t] = "sleep" => pc[t] = "returned"
                /\ pc[t] = "returned" => pc'[t] = "sleep"
                /\ pc'[t] = "done" => StopRequested(t)]_vars

\* C29: once a start_recording has been acknowledged (also right after a
\* stop_recording) and its loop has set is_recording, the flag stays true
\* until the next stop_recording or the end of input: the cancellation of an
\* earlier recording task never resets it.
C29_RestartStaysRunning ==
    [][(lastSession = "start" /\ lastSession' = "start" /\ ctl' # "stopped"
          /\ is_recording)
         => is_recording']_vars

\* C30: while the loop of the current session is running, the interval
\* get_status reports is the interval that loop waits between its cycles.
C30_ReportedIntervalIsLoopInterval ==
    \A t \in Tasks :
        (t = recording_task /\ LoopActive(t) /\ is_recording)
           => get_screenshot_interval = interval[t]

\* C25: the output stream is a sequence of whole frames: every length prefix
\* is followed by all the payload bytes of its response before anything
\* else is written, in every interleaving of the control thread and the
\* worker.
C25_FramesNeverInterleave ==
    LET sp == SplitFrames(stdout, byteorder) IN
    /\ \A i \in 1..Len(sp.payloads) :
          LET v == json_loads(sp.payloads[i]) IN v.ok /\ v.value.type = "object"
    /\ Len(sp.payloads) <= nsent
    /\ Len(sp.payloads) = nsent
          => sp.rest = <<>> /\ (nsent > 0 => sp.payloads[nsent] = json_dumps(ResponseObject(out)))
    /\ Len(sp.payloads) < nsent
          => /\ Len(sp.payloads) = nsent - 1
             /\ sp.rest \in {<<>>, pack(Len(json_dumps(ResponseObject(out))), byteorder)}

\* three responses were written while a cycle of the session was executing
C25_Witness ==
    /\ nsent = 3 /\ Written
    /\ \E t \in Tasks : MidCycle(t)

\* the names of the n screenshots created last
LastCreated(n) ==
    {shots.created[i] : i \in (Len(shots.created) - n + 1)..Len(shots.created)}

\* C27: each cycle takes a screenshot and then cleans up with keep_last_n =
\* N: from the N-th cycle on exactly N screenshots remain after the cleanup,
\* the N created last, and a cleanup that finds at most N removes nothing.
C27_RetentionKeepsLastN ==
    [][(shots.pending /\ ~shots'.pending)
         => /\ Cardinality(shots.dir) <= KeepLastN => shots'.dir = shots.dir
            /\ Len(shots.created) >= KeepLastN
                  => /\ Cardinality(shots'.dir) = KeepLastN
                     /\ {f.name : f \in shots'.dir} = LastCreated(KeepLastN)]_vars

\* C28: every save_activity that returns True leaves on disk all records in
\* retention that earlier calls stored, in their order, followed by its own
\* record, whatever other cycles and the control thread do at that time.
C28_LogIsAppendOnly ==
    [][\A w \in 1..MaxWriters :
          (io.at[w] = "opened" /\ io'.at[w] = "saved")
             => SelectSeq(io'.file.activities, InRetention)
                   = Append(io.saved, LogRecord(w, FALSE))]_vars

\* C26: while stop_recording waits for the worker thread the stop request
\* has been posted to the worker; terminate() is called only on a thread
\* whose graceful wait expired; a running worker thread, also one that
\* outlived a failed termination, is still referenced by the window, so
\* that at most one worker thread is running whatever start_recording is
\* called later.
C26_GracefulShutdownFirst ==
    /\ (gui.main \in {"wait", "wait2"} /\ gui.recording_worker # NoWorker)
          => gui.stop[gui.recording_worker] # "none"
    /\ \A w \in 1..MaxThreads : gui.terminated[w] => gui.expired[w]
    /\ \A w \in 1..MaxThreads :
          gui.thread[w] = "running"
             => gui.recording_thread = w /\ gui.recording_worker = w
    /\ Cardinality({w \in 1..MaxThreads : gui.thread[w] = "running"}) <= 1

\* a thread that outlived terminate() is still referenced and a later
\* start_recording has returned at its guard
C26_Witness ==
    /\ gui.main = "idle"
    /\ gui.refused
    /\ \E w \in 1..MaxThreads :
          /\ gui.terminated[w]
          /\ gui.thread[w] = "running"
          /\ gui.recording_thread = w

====
